---- MODULE Spec2Model ----
(***************************************************************************)
(* Model of scripts/generate_books_with_ollama.py: the resumable           *)
(* chapter-by-chapter generation controller (generate_one_book), the       *)
(* transport retry loop (ollama_generate), the durable files it keeps, and *)
(* main with its health check (check_ollama) and its exit statuses.        *)
(*                                                                         *)
(* Texts are sequences of pieces.  A piece is [k, n, w, m]: its kind, a    *)
(* number that identifies it, the number of words WORD_RE finds in it and  *)
(* whether its lower-cased text begins with "chapter ".  Concatenation of  *)
(* strings is \o, the empty string is << >>.                               *)
(***************************************************************************)
EXTENDS Integers, Sequences, FiniteSets, TLC

VARIABLES
  env,               \* the arguments of the run and the behaviour of the service
  now,               \* the wall clock: it advances between invocations
  stateFile,         \* <slug>.state.json
  tmpFile,           \* <slug>.state.tmp
  bookFile,          \* <slug>.txt
  metaFile,          \* <slug>.meta.json
  pc,                \* position of generate_one_book
  result,            \* how the last invocation ended
  state,             \* the state dict
  chapters,
  chapter_summaries,
  story_memory,
  chapter_no,
  chapter_goal,
  chapter_text,
  ch_words,
  chapter_summary,
  call,              \* the ollama_generate call in flight
  hist,              \* history of the run, for the properties only
  xfer,              \* history of the last ollama_generate call, likewise
  mainPc,            \* position of main; "none" when generate_one_book is called alone
  spec_i,            \* which book of default_specs() the files and locals belong to
  generated,         \* the list of the books main has completed
  exit_status,       \* exit status of the last process, -1 while there is none
  shelf,             \* the output files of the books other than spec_i
  mhist              \* history of the process, for the properties only

files == <<stateFile, tmpFile, bookFile, metaFile>>
locals == <<state, chapters, chapter_summaries, story_memory, chapter_no,
            chapter_goal, chapter_text, ch_words, chapter_summary>>
vars == <<env, now, stateFile, tmpFile, bookFile, metaFile, pc, result, state,
          chapters, chapter_summaries, story_memory, chapter_no, chapter_goal,
          chapter_text, ch_words, chapter_summary, call, hist, xfer,
          mainPc, spec_i, generated, exit_status, shelf, mhist>>
mainVars == <<mainPc, spec_i, generated, exit_status, shelf, mhist>>

----------------------------------------------------------------------------
(* Bounds of the model *)

\* number of invocations of generate_one_book on the book
MaxRuns == 3
\* number of processes that run main
MaxProcs == 2
\* chapter cap of the long scenario (the fallback memory keeps 5 summaries)
MaxChaptersLong == 6

(* Program constants *)

retries == 3
SHORT_FLOOR == 900
RETRY_TARGET == 2000
PROMPT_MIN_FLOOR == 1200
PROMPT_MIN_SLACK == 250
TAIL == 5
BACKOFF == 2
PLANS == 24
DEFAULT_TIMEOUT == 240
PROBE_MIN == 5
PROBE_MAX == 30
NBOOKS == 3
NO_EXIT == -1
EXIT_OK == 0
EXIT_ERROR == 1
EXIT_INTERRUPTED == 130
EXIT_KILLED == -9

----------------------------------------------------------------------------
(* Strings *)

Min(a, b) == IF a <= b THEN a ELSE b
Max(a, b) == IF a >= b THEN a ELSE b

Piece(k, n, w, m) == [k |-> k, n |-> n, w |-> w, m |-> m]

WS == Piece("ws", 0, 0, FALSE)
NL == Piece("nl", 1, 0, FALSE)
NL2 == Piece("nl", 2, 0, FALSE)
IsSpace(p) == p.k \in {"ws", "nl"}

\* a text the service wrote: id n, w words, m = it begins with "chapter "
Body(k, n, w, m) == << Piece(k, n, w, m) >>

RECURSIVE lstrip(_)
lstrip(t) == IF t # << >> /\ IsSpace(Head(t)) THEN lstrip(Tail(t)) ELSE t

RECURSIVE rstrip(_)
rstrip(t) ==
  IF t # << >> /\ IsSpace(t[Len(t)]) THEN rstrip(SubSeq(t, 1, Len(t) - 1)) ELSE t

strip(t) == rstrip(lstrip(t))

RECURSIVE count_words(_)
count_words(text) ==
  IF text = << >> THEN 0 ELSE Head(text).w + count_words(Tail(text))

startswith_chapter(text) == text # << >> /\ Head(text).m

RECURSIVE join(_, _)
join(sep, texts) ==
  IF texts = << >> THEN << >>
  ELSE IF Len(texts) = 1 THEN texts[1]
  ELSE texts[1] \o <<sep>> \o join(sep, Tail(texts))

\* chapter_summaries[-5:]
LastN(s, n) == IF Len(s) <= n THEN s ELSE SubSeq(s, Len(s) - n + 1, Len(s))

manuscript_text(title, chs) ==
  LET header == title \o <<NL2>>
  IN header \o strip(join(NL2, chs)) \o <<NL>>

----------------------------------------------------------------------------
(* Files: absent, partially written, or holding a complete document *)

Absent(empty) == [st |-> "absent", doc |-> empty]
PartialFile(empty) == [st |-> "partial", doc |-> empty]
Full(doc) == [st |-> "full", doc |-> doc]

\* the state dict; updated_at = 0 and word_count = -1 stand for a missing key
StateDoc(t, ch, su, mem, created, updated, wc) ==
  [title |-> t, chapters |-> ch, chapter_summaries |-> su, story_memory |-> mem,
   created_at |-> created, updated_at |-> updated, word_count |-> wc]

NoState == StateDoc(<< >>, << >>, << >>, << >>, 0, 0, -1)

MetaDoc(t, total, n, minw, at, su) ==
  [title |-> t, total_words |-> total, chapters |-> n, target_min_words |-> minw,
   generated_at |-> at, chapter_summaries |-> su]

NoMeta == MetaDoc(<< >>, 0, 0, 0, 0, << >>)

----------------------------------------------------------------------------
(* The book and the literal strings of the program *)

\* BookSpec.title of the romance book, "Theater of Tides"
Title == << Piece("title", 0, 3, FALSE) >>

\* "No chapters yet."
Sentinel == << Piece("no_chapters_yet", 0, 3, FALSE) >>

\* f"Chapter {chapter_no}: Untitled\n\n"
UntitledPrefix(n) == << Piece("chapter_untitled", n, 3, TRUE), NL2 >>

\* RuntimeError(f"Ollama generation failed after {attempt} attempts: {exc}")
GenerationFailed(attempt, cause) ==
  << Piece("generation_failed_after", attempt, 6, FALSE), Piece(cause, 0, 1, FALSE) >>

\* str(exc) of an exception that the except clause of ollama_generate does not
\* name, such as the AttributeError of data.get on a body that is no object
OtherError(cause) == << Piece(cause, 0, 1, FALSE) >>

\* f"Chapter {chapter_no} summary unavailable due to error: {exc}"
SummaryUnavailable(n, exc) == << Piece("summary_unavailable", n, 7, TRUE) >> \o exc

\* faulty variant: the fallback joins every summary, not the last five
FallbackMemory_all(summaries) ==
  << Piece("recent_continuity_notes", 0, 3, FALSE), NL >> \o join(NL, summaries)

\* f"Recent continuity notes:\n{tail}"
FallbackMemory(summaries) ==
  LET tail == join(NL, LastN(summaries, TAIL))
  IN << Piece("recent_continuity_notes", 0, 3, FALSE), NL >> \o tail

----------------------------------------------------------------------------
(* The generation service: what one POST to /api/generate can answer *)

Ok(text) == [ok |-> TRUE, text |-> text, err |-> "none"]
Err(e) == [ok |-> FALSE, text |-> << >>, err |-> e]

\* texts of the stubbed service
ChapterBody(w, m) == Body("chapter_body", 0, w, m)
SummaryBody(n) == Body("summary_body", n, 100, FALSE)
MemoryBody(n) == Body("memory_body", n, 200, FALSE)

\* the answers post_json can get for a call of the given kind about chapter n
FixedStub(kind, n) ==
  CASE kind \in {"chapter", "regen"} -> {Ok(ChapterBody(1500, TRUE))}
    [] kind = "summarize" -> {Ok(SummaryBody(n))}
    [] kind = "merge" -> {Ok(MemoryBody(n))}

LengthStub(kind, n) ==
  CASE kind = "chapter" ->
         {Ok(ChapterBody(898, FALSE)), Ok(ChapterBody(898, TRUE)),
          Ok(<<WS>> \o ChapterBody(1500, FALSE) \o <<NL>>), Err("network")}
    [] kind = "regen" ->
         {Ok(ChapterBody(2000, TRUE)), Ok(ChapterBody(400, FALSE)),
          Ok(<<WS>>), Err("malformed")}
    [] kind = "summarize" -> {Ok(SummaryBody(n))}
    [] kind = "merge" -> {Ok(MemoryBody(n))}

ContinuityStub(kind, n) ==
  CASE kind \in {"chapter", "regen"} -> {Ok(ChapterBody(1500, TRUE))}
    [] kind = "summarize" -> {Ok(SummaryBody(n)), Ok(<< >>), Err("network")}
    [] kind = "merge" -> {Ok(MemoryBody(n) \o <<NL>>), Err("malformed")}

MergeDownStub(kind, n) ==
  CASE kind \in {"chapter", "regen"} -> {Ok(ChapterBody(1500, TRUE))}
    [] kind = "summarize" -> {Ok(SummaryBody(n))}
    [] kind = "merge" -> {Err("network")}

\* every way one request can fail, and a body that is JSON but no object
TransportStub(kind, n) ==
  CASE kind \in {"chapter", "regen"} ->
         {Ok(ChapterBody(1500, TRUE)), Ok(<<NL>>), Err("network"), Err("malformed"),
          Err("not_object")}
    [] kind = "summarize" -> {Ok(SummaryBody(n)), Err("not_object")}
    [] kind = "merge" -> {Ok(MemoryBody(n))}

\* a service for a book with a short outline
OutlineStub(kind, n) ==
  CASE kind = "chapter" -> {Ok(ChapterBody(1500, TRUE)), Ok(ChapterBody(898, TRUE))}
    [] kind = "regen" -> {Ok(ChapterBody(2000, TRUE))}
    [] kind = "summarize" -> {Ok(SummaryBody(n))}
    [] kind = "merge" -> {Ok(MemoryBody(n))}

\* a service for the run over the catalog
CatalogStub(kind, n) ==
  CASE kind \in {"chapter", "regen"} -> {Ok(ChapterBody(1500, TRUE)), Err("network")}
    [] kind = "summarize" -> {Ok(SummaryBody(n))}
    [] kind = "merge" -> {Ok(MemoryBody(n)), Err("malformed")}

Service(stub, kind, n) ==
  CASE stub = "fixed" -> FixedStub(kind, n)
    [] stub = "length" -> LengthStub(kind, n)
    [] stub = "continuity" -> ContinuityStub(kind, n)
    [] stub = "merge_down" -> MergeDownStub(kind, n)
    [] stub = "transport" -> TransportStub(kind, n)
    [] stub = "outline" -> OutlineStub(kind, n)
    [] stub = "catalog" -> CatalogStub(kind, n)

\* the exceptions of post_json that ollama_generate catches and retries
Retried(err) == err \in {"network", "malformed"}

\* the command line of the run and the stub behind the endpoint
\* plans = len(spec.chapter_plans)
EnvOf(minw, target, maxch, stub, plans, timeout) ==
  [min_words |-> minw, target_chapter_words |-> target, max_chapters |-> maxch,
   stub |-> stub, plans |-> plans, timeout_sec |-> timeout]

Env(minw, target, maxch, stub) ==
  EnvOf(minw, target, maxch, stub, PLANS, DEFAULT_TIMEOUT)

Scenarios ==
  { Env(5000, 1800, 3, "fixed"),
    Env(3000, 1800, 2, "length"),
    Env(3000, 1800, 3, "continuity"),
    Env(40000, 1800, MaxChaptersLong, "merge_down"),
    Env(1500, 1800, 1, "transport"),
    EnvOf(5000, 1800, 3, "outline", 2, DEFAULT_TIMEOUT) }

----------------------------------------------------------------------------
(* Prompts *)

\* faulty variant: the last objective of the outline is never used
Goal_short(n) == [plan |-> IF n < env.plans THEN n ELSE 0, fuller |-> FALSE]

\* spec.chapter_plans[n - 1], or the generic objective (plan 0) past the outline
Goal(n) == [plan |-> IF n <= env.plans THEN n ELSE 0, fuller |-> FALSE]
NoGoal == [plan |-> 0, fuller |-> FALSE]

Prompt(n, goal, memory, summary, target, minimum, temperature) ==
  [chapter_number |-> n, chapter_goal |-> goal, story_memory |-> memory,
   latest_summary |-> summary, target_words |-> target, minimum |-> minimum,
   temperature |-> temperature]

\* faulty variant: the prompt carries the memory of a book with no chapters
make_chapter_prompt_sentinel(n, goal, memory, target, temperature) ==
  Prompt(n, goal, Sentinel, << >>, target,
         Max(PROMPT_MIN_FLOOR, target - PROMPT_MIN_SLACK), temperature)

make_chapter_prompt(n, goal, memory, target, temperature) ==
  Prompt(n, goal, memory, << >>, target,
         Max(PROMPT_MIN_FLOOR, target - PROMPT_MIN_SLACK), temperature)

summarize_prompt(n) == Prompt(n, NoGoal, << >>, << >>, 0, 0, 20)

merge_prompt(n, previous_memory, latest_summary) ==
  Prompt(n, NoGoal, previous_memory, latest_summary, 0, 0, 20)

NoPrompt == Prompt(0, NoGoal, << >>, << >>, 0, 0, 0)

NewCall(kind, prompt) == [kind |-> kind, attempt |-> 0, sleep_s |-> 0, prompt |-> prompt]
NoCall == NewCall("none", NoPrompt)

----------------------------------------------------------------------------
(* History kept for the properties; the program does not read it *)

Artifacts(book, meta) == [set |-> TRUE, book |-> book, meta |-> meta]
NoArtifacts == [set |-> FALSE, book |-> Absent(<< >>), meta |-> Absent(NoMeta)]

Computed(text, summary, memory) == [chapter |-> text, summary |-> summary, memory |-> memory]

InitHist ==
  [abortN |-> 0,            \* chapter in production when the last run was aborted
   resumeN |-> 0,           \* abortN of the run before this one
   loaded |-> -1,           \* number of chapters this run loaded
   firstGen |-> 0,          \* chapter number of this run's first generation call
   genCalls |-> 0,          \* ollama_generate calls of this run
   chapCalls |-> 0,         \* chapter-generation calls of this loop iteration
   first |-> << >>,         \* stripped text of the iteration's first attempt
   second |-> << >>,        \* stripped text of the iteration's regeneration
   regenTarget |-> 0,       \* target_words of the iteration's regeneration call
   textReady |-> FALSE,     \* chapter text obtained, its state not yet replaced
   startState |-> Absent(NoState),   \* the state file when this run started
   final0 |-> NoArtifacts,  \* artifacts after the completed run before the last
   final1 |-> NoArtifacts,  \* artifacts after the last completed run
   computed |-> << >>,      \* per chapter: text, summary and memory last computed
   metaWrites |-> 0,        \* writes of the metadata file in this run
   metaState |-> Absent(NoState),    \* the state file when the metadata was written
   iterStart |-> <<Absent(NoState), Absent(<< >>), Absent(NoMeta)>>,
                            \* state, manuscript and metadata file when the
                            \* loop iteration in progress began
   failN |-> 0,             \* chapter whose generation call ended the last run
   resumeF |-> 0,           \* failN of the run before this one
   iters |-> 0]             \* loop iterations this run has begun

\* what is known of the last ollama_generate call: the requests it has sent,
\* the sleeps it has taken, and how it ended
NoXfer == [kind |-> "none", sent |-> 0, slept |-> << >>, outcome |-> "none", value |-> << >>]

\* the runs of main: every book done in one chapter, a book that ends under
\* length, and the --timeout-sec values on each side of the probe's clamp
MainScenarios ==
  { EnvOf(1500, 1800, 1, "catalog", PLANS, DEFAULT_TIMEOUT),
    EnvOf(1500, 1800, 1, "fixed", PLANS, 20),
    EnvOf(5000, 1800, 1, "catalog", PLANS, 3) }

\* the answers to GET /api/tags
Probes == {"ok", "bad_status", "unreachable", "interrupt"}

BookFiles(st, tmp, book, meta, h) ==
  [stateFile |-> st, tmpFile |-> tmp, bookFile |-> book, metaFile |-> meta, hist |-> h]

EmptyShelf ==
  [b \in 1..NBOOKS |->
     BookFiles(Absent(NoState), Absent(NoState), Absent(<< >>), Absent(NoMeta), InitHist)]

NoMainHist ==
  [procs |-> 0,             \* processes started so far
   probes |-> 0,            \* health checks of this process
   probe |-> "none",        \* how the health check of this process ended
   probeTimeout |-> 0,      \* timeout of the health check of this process
   error |-> << >>,         \* message of the exception that left main
   started |-> << >>,       \* the books this process has started, in order
   ended |-> << >>,         \* how each of them ended
   disk0 |-> << >>,         \* the output files when this process started
   interrupts |-> 0,        \* KeyboardInterrupts raised in this process
   interruptedIn |-> "none",\* what the process was blocked in when interrupted
   atInterrupt |-> << >>]   \* the output files at the interrupt

----------------------------------------------------------------------------
(* generate_one_book *)

Running == [status |-> "running", call |-> "none"]
Ended(status, kind) == [status |-> status, call |-> kind]

ResetLocals ==
  /\ state' = NoState
  /\ chapters' = << >>
  /\ chapter_summaries' = << >>
  /\ story_memory' = << >>
  /\ chapter_no' = 0
  /\ chapter_goal' = NoGoal
  /\ chapter_text' = << >>
  /\ ch_words' = 0
  /\ chapter_summary' = << >>
  /\ call' = NoCall

Init ==
  /\ env \in Scenarios
  /\ now = 0
  /\ stateFile = Absent(NoState)
  /\ tmpFile = Absent(NoState)
  /\ bookFile = Absent(<< >>)
  /\ metaFile = Absent(NoMeta)
  /\ pc = "idle"
  /\ result = Ended("none", "none")
  /\ state = NoState
  /\ chapters = << >>
  /\ chapter_summaries = << >>
  /\ story_memory = << >>
  /\ chapter_no = 0
  /\ chapter_goal = NoGoal
  /\ chapter_text = << >>
  /\ ch_words = 0
  /\ chapter_summary = << >>
  /\ call = NoCall
  /\ hist = InitHist
  /\ xfer = NoXfer
  /\ mainPc = "none"
  /\ spec_i = 1
  /\ generated = << >>
  /\ exit_status = NO_EXIT
  /\ shelf = EmptyShelf
  /\ mhist = NoMainHist

\* the exception leaves generate_one_book
Abort(status, kind) ==
  /\ pc' = "idle"
  /\ result' = Ended(status, kind)
  /\ ResetLocals

\* one invocation of generate_one_book on the book
StartRun ==
  /\ pc = "idle"
  /\ now < MaxRuns
  /\ now' = now + 1
  /\ pc' = "read_state"
  /\ result' = Running
  /\ hist' = [hist EXCEPT !.resumeN = hist.abortN, !.abortN = 0, !.loaded = -1,
                          !.firstGen = 0, !.genCalls = 0, !.chapCalls = 0,
                          !.first = << >>, !.second = << >>, !.regenTarget = 0,
                          !.textReady = FALSE,
                          !.startState = stateFile,
                          !.metaWrites = 0, !.metaState = Absent(NoState),
                          !.iterStart = <<stateFile, bookFile, metaFile>>,
                          !.resumeF = hist.failN, !.failN = 0, !.iters = 0]
  /\ xfer' = NoXfer
  /\ UNCHANGED <<env, files, locals, call>>
  /\ UNCHANGED mainVars

\* read_state(state_path) or the fresh state
LoadedState ==
  IF stateFile.st = "absent"
  THEN StateDoc(Title, << >>, << >>, Sentinel, now, 0, -1)
  ELSE stateFile.doc

ReadState ==
  /\ pc = "read_state"
  /\ IF stateFile.st = "partial"
     THEN /\ Abort("state_unreadable", "none")
          /\ UNCHANGED hist
     ELSE /\ state' = LoadedState
          /\ chapters' = LoadedState.chapters
          /\ chapter_summaries' = LoadedState.chapter_summaries
          /\ story_memory' = LoadedState.story_memory
          /\ pc' = "loop"
          /\ hist' = [hist EXCEPT !.loaded = Len(LoadedState.chapters),
                        !.computed = SubSeq(hist.computed, 1, Len(LoadedState.chapters))]
          /\ UNCHANGED <<result, chapter_no, chapter_goal, chapter_text, ch_words,
                         chapter_summary, call>>
  /\ UNCHANGED <<env, now, files>>
  /\ UNCHANGED <<xfer, mainVars>>

\* faulty variant: the loop goes on while either bound is unmet
LoopCond_or(chs) ==
  \/ count_words(manuscript_text(Title, chs)) < env.min_words
  \/ Len(chs) < env.max_chapters

\* faulty variant: the chapter cap is off by one
LoopCond_le(chs) ==
  /\ count_words(manuscript_text(Title, chs)) < env.min_words
  /\ Len(chs) <= env.max_chapters

\* faulty variant: the loop has no chapter cap
LoopCond_uncapped(chs) ==
  count_words(manuscript_text(Title, chs)) < env.min_words

\* the condition of the while loop
LoopCond(chs) ==
  /\ count_words(manuscript_text(Title, chs)) < env.min_words
  /\ Len(chs) < env.max_chapters

\* the loop test and, when it holds, the first chapter call of the iteration
LoopTest ==
  /\ pc = "loop"
  /\ IF LoopCond(chapters)
     THEN LET n == Len(chapters) + 1
              goal == Goal(n)
          IN /\ chapter_no' = n
             /\ chapter_goal' = goal
             /\ call' = NewCall("chapter",
                          make_chapter_prompt(n, goal, story_memory,
                                              env.target_chapter_words, 75))
             /\ pc' = "request"
             /\ hist' = [hist EXCEPT !.genCalls = @ + 1, !.chapCalls = 1,
                           !.firstGen = IF @ = 0 THEN n ELSE @,
                           !.first = << >>, !.second = << >>, !.regenTarget = 0,
                           !.iterStart = <<stateFile, bookFile, metaFile>>,
                           !.iters = @ + 1]
     ELSE /\ pc' = "write_meta"
          /\ UNCHANGED <<chapter_no, chapter_goal, call, hist>>
  /\ UNCHANGED <<env, now, files, result, state, chapters, chapter_summaries,
                 story_memory, chapter_text, ch_words, chapter_summary>>
  /\ UNCHANGED <<xfer, mainVars>>

----------------------------------------------------------------------------
(* The body of the loop: what follows each ollama_generate call *)

\* faulty variant: the threshold is the whole target, not half of it
ShortThreshold_full(target) == Max(SHORT_FLOOR, target)

ShortThreshold(target) == Max(SHORT_FLOOR, target \div 2)

\* the placeholder title for a text without the chapter marker
WithTitle(n, text) ==
  IF ~startswith_chapter(text) THEN UntitledPrefix(n) \o text ELSE text

RetryTarget(target) == Max(target, RETRY_TARGET)

\* chapter_goal + " Write fuller scenes and dialogue."
Fuller(goal) == [goal EXCEPT !.fuller = TRUE]

\* faulty variant: the new chapter is put at the head of the list
AppendChapter_front(text, words) ==
  /\ chapter_text' = text
  /\ ch_words' = words
  /\ chapters' = <<text>> \o chapters
  /\ call' = NewCall("summarize", summarize_prompt(chapter_no))
  /\ pc' = "request"
  /\ UNCHANGED <<result, state, chapter_summaries, story_memory, chapter_no,
                 chapter_goal, chapter_summary>>

\* chapters.append(chapter_text), then the summarize call
AppendChapter(text, words) ==
  /\ chapter_text' = text
  /\ ch_words' = words
  /\ chapters' = Append(chapters, text)
  /\ call' = NewCall("summarize", summarize_prompt(chapter_no))
  /\ pc' = "request"
  /\ UNCHANGED <<result, state, chapter_summaries, story_memory, chapter_no,
                 chapter_goal, chapter_summary>>

\* the first attempt returned: title it, count it, regenerate a short one
AfterChapter(response) ==
  LET text == WithTitle(chapter_no, strip(response))
      words == count_words(text)
  IN IF words < ShortThreshold(env.target_chapter_words)
     THEN /\ chapter_text' = text
          /\ ch_words' = words
          /\ call' = NewCall("regen",
                       make_chapter_prompt(chapter_no, Fuller(chapter_goal), story_memory,
                                           RetryTarget(env.target_chapter_words), 80))
          /\ pc' = "request"
          /\ hist' = [hist EXCEPT !.first = strip(response), !.textReady = TRUE,
                        !.genCalls = @ + 1, !.chapCalls = @ + 1,
                        !.regenTarget = RetryTarget(env.target_chapter_words)]
          /\ UNCHANGED <<result, state, chapters, chapter_summaries, story_memory,
                         chapter_no, chapter_goal, chapter_summary>>
     ELSE /\ AppendChapter(text, words)
          /\ hist' = [hist EXCEPT !.first = strip(response), !.textReady = TRUE,
                        !.genCalls = @ + 1]

\* the regeneration returned: its text is taken as it is
AfterRegen(response) ==
  LET text == strip(response)
  IN /\ AppendChapter(text, count_words(text))
     /\ hist' = [hist EXCEPT !.genCalls = @ + 1, !.second = strip(response)]

\* chapter_summaries.append(chapter_summary), then the merge call
AfterSummary(summary) ==
  /\ chapter_summary' = summary
  /\ chapter_summaries' = Append(chapter_summaries, summary)
  /\ call' = NewCall("merge", merge_prompt(chapter_no, story_memory, summary))
  /\ pc' = "request"
  /\ hist' = [hist EXCEPT !.genCalls = @ + 1]
  /\ UNCHANGED <<result, state, chapters, story_memory, chapter_no, chapter_goal,
                 chapter_text, ch_words>>

\* faulty variant: word_count is the word count of the last chapter
UpdatedState_ch_words(memory) ==
  [state EXCEPT !.chapters = chapters,
                !.chapter_summaries = chapter_summaries,
                !.story_memory = memory,
                !.updated_at = now,
                !.word_count = ch_words]

\* state.update({...})
UpdatedState(memory) ==
  [state EXCEPT !.chapters = chapters,
                !.chapter_summaries = chapter_summaries,
                !.story_memory = memory,
                !.updated_at = now,
                !.word_count = count_words(manuscript_text(Title, chapters))]

\* the memory is set, the state dict updated
AfterMerge(memory) ==
  /\ story_memory' = memory
  /\ state' = UpdatedState(memory)
  /\ call' = NoCall
  /\ pc' = "write_tmp"
  /\ hist' = [hist EXCEPT !.computed =
                Append(@, Computed(chapter_text, chapter_summary, memory))]
  /\ UNCHANGED <<result, chapters, chapter_summaries, chapter_no, chapter_goal,
                 chapter_text, ch_words, chapter_summary>>

\* ollama_generate returned response to its caller
Return(kind, response) ==
  CASE kind = "chapter" -> AfterChapter(response)
    [] kind = "regen" -> AfterRegen(response)
    [] kind = "summarize" -> AfterSummary(strip(response))
    [] kind = "merge" -> AfterMerge(strip(response))

\* faulty variant: a lost summary ends the run
SummarizeFailed_raise(exc) == Abort("generation_failed", "summarize") /\ UNCHANGED hist

\* what the caller does with the exception of ollama_generate
SummarizeFailed(exc) == AfterSummary(SummaryUnavailable(chapter_no, exc))
MergeFailed(exc) == AfterMerge(FallbackMemory(chapter_summaries))
\* the exception of a chapter call leaves generate_one_book
ChapterFailed(kind, exc) ==
  /\ Abort("generation_failed", kind)
  /\ hist' = [hist EXCEPT !.failN = chapter_no]

Raise(kind, exc) ==
  CASE kind \in {"chapter", "regen"} -> ChapterFailed(kind, exc)
    [] kind = "summarize" -> SummarizeFailed(exc)
    [] kind = "merge" -> MergeFailed(exc)

----------------------------------------------------------------------------
(* ollama_generate: one request of the call in flight *)

OllamaRequest ==
  /\ pc = "request"
  /\ \E out \in Service(env.stub, call.kind, chapter_no) :
       LET attempt == call.attempt + 1
           response == IF out.ok THEN strip(out.text) ELSE << >>
           cause == IF out.ok THEN "empty_response" ELSE out.err
           slept == IF call.attempt = 0 THEN << >> ELSE xfer.slept
           Ends(outcome, value) ==
             xfer' = [kind |-> call.kind, sent |-> attempt, slept |-> slept,
                      outcome |-> outcome, value |-> value]
       IN IF out.ok /\ response # << >>
          THEN /\ Return(call.kind, response)
               /\ Ends("returned", response)
          ELSE IF ~out.ok /\ ~Retried(out.err)
          THEN /\ Raise(call.kind, OtherError(out.err))
               /\ Ends("propagated", OtherError(out.err))
          ELSE IF attempt >= retries
          THEN /\ Raise(call.kind, GenerationFailed(attempt, cause))
               /\ Ends("raised", GenerationFailed(attempt, cause))
          ELSE /\ call' = [call EXCEPT !.attempt = attempt,
                                       !.sleep_s = attempt * BACKOFF]
               /\ pc' = "sleep"
               /\ Ends("retrying", << >>)
               /\ UNCHANGED <<result, locals, hist>>
  /\ UNCHANGED <<env, now, files>>
  /\ UNCHANGED mainVars

\* time.sleep(sleep_s) is over
OllamaSleep ==
  /\ pc = "sleep"
  /\ pc' = "request"
  /\ call' = [call EXCEPT !.sleep_s = 0]
  /\ xfer' = [xfer EXCEPT !.slept = Append(@, call.sleep_s)]
  /\ UNCHANGED <<env, now, files, result, locals, hist>>
  /\ UNCHANGED mainVars

----------------------------------------------------------------------------
(* write_state: tmp.write_text(...) then tmp.replace(state_path) *)

\* faulty variant: write_state writes state_path in place
WriteStateOpen_inplace ==
  /\ pc = "write_tmp"
  /\ stateFile' = PartialFile(NoState)
  /\ tmpFile' = PartialFile(NoState)
  /\ pc' = "write_tmp_data"
  /\ UNCHANGED <<env, now, bookFile, metaFile, result, locals, call, hist>>
  /\ UNCHANGED <<xfer, mainVars>>

\* tmp.write_text opens (creates or truncates) the temporary file
WriteStateOpen ==
  /\ pc = "write_tmp"
  /\ tmpFile' = PartialFile(NoState)
  /\ pc' = "write_tmp_data"
  /\ UNCHANGED <<env, now, stateFile, bookFile, metaFile, result, locals, call, hist>>
  /\ UNCHANGED <<xfer, mainVars>>

\* faulty variant: the document is written to state_path before the replace
WriteStateData_direct ==
  /\ pc = "write_tmp_data"
  /\ tmpFile' = Full(state)
  /\ stateFile' = Full(state)
  /\ pc' = "replace"
  /\ UNCHANGED <<env, now, bookFile, metaFile, result, locals, call, hist>>
  /\ UNCHANGED <<xfer, mainVars>>

\* tmp.write_text has written and closed the temporary file
WriteStateData ==
  /\ pc = "write_tmp_data"
  /\ tmpFile' = Full(state)
  /\ pc' = "replace"
  /\ UNCHANGED <<env, now, stateFile, bookFile, metaFile, result, locals, call, hist>>
  /\ UNCHANGED <<xfer, mainVars>>

\* faulty variant: the temporary file never takes the place of the state file
ReplaceState_lost ==
  /\ pc = "replace"
  /\ tmpFile' = Absent(NoState)
  /\ pc' = "write_book"
  /\ hist' = [hist EXCEPT !.textReady = FALSE]
  /\ UNCHANGED <<env, now, stateFile, bookFile, metaFile, result, locals, call>>
  /\ UNCHANGED <<xfer, mainVars>>

\* tmp.replace(state_path)
ReplaceState ==
  /\ pc = "replace"
  /\ stateFile' = tmpFile
  /\ tmpFile' = Absent(NoState)
  /\ pc' = "write_book"
  /\ hist' = [hist EXCEPT !.textReady = FALSE]
  /\ UNCHANGED <<env, now, bookFile, metaFile, result, locals, call>>
  /\ UNCHANGED <<xfer, mainVars>>

(* book_path.write_text(manuscript) *)

WriteBookOpen ==
  /\ pc = "write_book"
  /\ bookFile' = PartialFile(<< >>)
  /\ pc' = "write_book_data"
  /\ UNCHANGED <<env, now, stateFile, tmpFile, metaFile, result, locals, call, hist>>
  /\ UNCHANGED <<xfer, mainVars>>

WriteBookData ==
  /\ pc = "write_book_data"
  /\ bookFile' = Full(manuscript_text(Title, chapters))
  /\ pc' = "loop"
  /\ UNCHANGED <<env, now, stateFile, tmpFile, metaFile, result, locals, call, hist>>
  /\ UNCHANGED <<xfer, mainVars>>

(* after the loop: the metadata, then the length check *)

\* faulty variant: the total counts the chapters without the title header
total_words_chapters_only == count_words(join(NL2, chapters))

total_words == count_words(manuscript_text(Title, chapters))

\* faulty variant: the chapter count is the number of the last chapter this run produced
Metadata_chapter_no ==
  MetaDoc(Title, count_words(manuscript_text(Title, chapters)), chapter_no,
          env.min_words, now, chapter_summaries)

Metadata ==
  MetaDoc(Title, total_words, Len(chapters), env.min_words, now, chapter_summaries)

\* faulty variant: the length is checked first, the metadata written only for
\* a manuscript that is long enough
WriteMetaOpen_if_long ==
  /\ pc = "write_meta"
  /\ IF count_words(manuscript_text(Title, chapters)) < env.min_words
     THEN /\ pc' = "check_length"
          /\ UNCHANGED <<metaFile, hist>>
     ELSE /\ metaFile' = PartialFile(NoMeta)
          /\ pc' = "write_meta_data"
          /\ hist' = [hist EXCEPT !.metaWrites = @ + 1, !.metaState = stateFile]
  /\ UNCHANGED <<env, now, stateFile, tmpFile, bookFile, result, locals, call>>
  /\ UNCHANGED <<xfer, mainVars>>

WriteMetaOpen ==
  /\ pc = "write_meta"
  /\ metaFile' = PartialFile(NoMeta)
  /\ pc' = "write_meta_data"
  /\ hist' = [hist EXCEPT !.metaWrites = @ + 1, !.metaState = stateFile]
  /\ UNCHANGED <<env, now, stateFile, tmpFile, bookFile, result, locals, call>>
  /\ UNCHANGED <<xfer, mainVars>>

WriteMetaData ==
  /\ pc = "write_meta_data"
  /\ metaFile' = Full(Metadata)
  /\ pc' = "check_length"
  /\ UNCHANGED <<env, now, stateFile, tmpFile, bookFile, result, locals, call, hist>>
  /\ UNCHANGED <<xfer, mainVars>>

\* raise the under-length RuntimeError, or return book_path
Finish ==
  /\ pc = "check_length"
  /\ IF total_words < env.min_words
     THEN Abort("under_length", "none")
     ELSE Abort("returned", "none")
  /\ hist' = [hist EXCEPT !.final0 = hist.final1,
                          !.final1 = Artifacts(bookFile, metaFile)]
  /\ UNCHANGED <<env, now, files>>
  /\ UNCHANGED <<xfer, mainVars>>

\* the process dies (kill, power loss) wherever it is
Crash ==
  /\ pc # "idle"
  /\ Abort("crashed", "none")
  /\ hist' = [hist EXCEPT !.abortN = IF hist.textReady THEN chapter_no ELSE 0,
                          !.textReady = FALSE]
  /\ UNCHANGED <<env, now, files>>
  /\ UNCHANGED <<xfer, mainVars>>

\* every output file of every book
Disk ==
  [b \in 1..NBOOKS |->
     IF b = spec_i THEN <<stateFile, tmpFile, bookFile, metaFile>>
     ELSE <<shelf[b].stateFile, shelf[b].tmpFile, shelf[b].bookFile, shelf[b].metaFile>>]

\* faulty variant: the interrupt is handled like a failed request
Interrupt_absorbed ==
  /\ pc \in {"request", "sleep"}
  /\ Raise(call.kind, GenerationFailed(call.attempt + 1, "interrupt"))
  /\ mhist' = IF mainPc = "none" THEN mhist
               ELSE [mhist EXCEPT !.interrupts = @ + 1,
                      !.interruptedIn = IF pc = "sleep" THEN "sleep" ELSE call.kind,
                      !.atInterrupt = Disk]
  /\ UNCHANGED <<env, now, files, xfer, mainPc, spec_i, generated, exit_status, shelf>>

\* KeyboardInterrupt: no except clause of generate_one_book, ollama_generate or
\* main names it, so it leaves them all
Interrupt ==
  /\ pc # "idle"
  /\ Abort("interrupted", call.kind)
  /\ hist' = [hist EXCEPT !.abortN = IF hist.textReady THEN chapter_no ELSE 0,
                          !.textReady = FALSE]
  /\ mhist' = IF mainPc = "none" THEN mhist
               ELSE [mhist EXCEPT !.interrupts = @ + 1,
                      !.interruptedIn = IF pc = "sleep" THEN "sleep" ELSE call.kind,
                      !.atInterrupt = Disk]
  /\ UNCHANGED <<env, now, files, xfer, mainPc, spec_i, generated, exit_status, shelf>>

\* generate_one_book called over and over on one book
Next ==
  \/ StartRun
  \/ ReadState
  \/ LoopTest
  \/ OllamaRequest
  \/ OllamaSleep
  \/ WriteStateOpen
  \/ WriteStateData
  \/ ReplaceState
  \/ WriteBookOpen
  \/ WriteBookData
  \/ WriteMetaOpen
  \/ WriteMetaData
  \/ Finish
  \/ Crash
  \/ Interrupt

Spec == Init /\ [][Next]_vars

----------------------------------------------------------------------------
(* Properties *)

StateIsFull == stateFile.st = "full"
StateChapters == stateFile.doc.chapters

\* C1: at every instant, crash points included, the state file is absent or
\* holds a complete document with as many summaries as chapters, each chapter
\* with the summary computed for it, and the memory computed after its last
\* chapter.
StateFileAlwaysComplete ==
  \/ stateFile.st = "absent"
  \/ /\ stateFile.st = "full"
     /\ LET d == stateFile.doc
            n == Len(d.chapters)
        IN /\ n >= 1
           /\ Len(d.chapter_summaries) = n
           /\ Len(hist.computed) >= n
           /\ \A k \in 1..n :
                /\ d.chapters[k] = hist.computed[k].chapter
                /\ d.chapter_summaries[k] = hist.computed[k].summary
           /\ d.story_memory = hist.computed[n].memory

\* a crash inside write_state of chapter 2, the temporary file half written
CrashInsideWriteState ==
  /\ result.status = "crashed"
  /\ tmpFile.st = "partial"
  /\ StateIsFull
  /\ Len(StateChapters) = 1
  /\ Len(hist.computed) = 2

\* C2: after an abort between obtaining the text of chapter N and the end of
\* write_state for it, the next run loads exactly N-1 chapters, enters the
\* loop, and its first generation call is for chapter N.
ResumeRegeneratesChapter ==
  hist.resumeN > 0 =>
    /\ hist.loaded \in {-1, hist.resumeN - 1}
    /\ hist.firstGen \in {0, hist.resumeN}
    /\ (pc \in {"write_meta", "write_meta_data", "check_length"} => hist.genCalls > 0)
    /\ (hist.loaded >= 0 => Len(hist.startState.doc.chapters) = hist.resumeN - 1)

\* the run after a crash that left the complete temporary file of chapter 2
\* behind asks for chapter 2 again
ResumedAfterLostReplace ==
  /\ hist.resumeN = 2
  /\ hist.loaded = 1
  /\ hist.firstGen = 2
  /\ tmpFile.st = "full"
  /\ Len(tmpFile.doc.chapters) = 2
  /\ pc = "request"

StartDone ==
  /\ hist.startState.st = "full"
  /\ \/ hist.startState.doc.word_count >= env.min_words
     \/ Len(hist.startState.doc.chapters) >= env.max_chapters

\* C3: a run started on a state that already has min_words words or
\* max_chapters chapters makes no ollama_generate call and leaves the state
\* file as it was.
ReentrantRunIsNoOp ==
  StartDone => /\ hist.genCalls = 0
               /\ stateFile = hist.startState
               /\ pc \notin {"request", "sleep", "write_tmp", "write_tmp_data", "replace",
                             "write_book", "write_book_data"}

\* a second run on a finished book has returned
SecondRunReturned ==
  /\ StartDone
  /\ result.status = "returned"
  /\ hist.final0.set

\* the metadata without its generated_at timestamp
SansTime(meta) == [meta EXCEPT !.doc.generated_at = 0]

\* C4 as claimed: a second completed run leaves the same manuscript and the
\* same metadata artifact as the first.
SecondRunSameArtifacts ==
  hist.final0.set => hist.final1 = hist.final0

\* C4 as amended: a second completed run leaves the same manuscript, and the
\* same metadata in every field but generated_at.
SecondRunSameButTimestamp ==
  hist.final0.set =>
    /\ hist.final1.book = hist.final0.book
    /\ SansTime(hist.final1.meta) = SansTime(hist.final0.meta)

\* two completed runs, the second of which found the under-length book at its cap
TwoCompletedRuns ==
  /\ hist.final0.set
  /\ hist.final0.meta.st = "full"
  /\ hist.final1.meta.doc.generated_at > hist.final0.meta.doc.generated_at
  /\ hist.final1.meta.doc.chapters = env.max_chapters

\* C5: every change of the state file adds exactly one chapter and one
\* summary and does not lower word_count, within a run and across runs.
StateGrowsByOneChapter ==
  [][stateFile' # stateFile =>
       /\ stateFile'.st = "full"
       /\ Len(stateFile'.doc.chapters) = Len(stateFile.doc.chapters) + 1
       /\ Len(stateFile'.doc.chapter_summaries) = Len(stateFile.doc.chapter_summaries) + 1
       /\ stateFile'.doc.word_count >= stateFile.doc.word_count
       /\ stateFile'.doc.word_count >= 0]_vars

\* a second chapter persisted by a later run than the first, shorter than it
SecondChapterPersistedOnResume ==
  /\ StateIsFull
  /\ Len(StateChapters) = 2
  /\ hist.loaded = 1
  /\ count_words(StateChapters[2]) < count_words(StateChapters[1])
  /\ pc = "write_book"

RECURSIVE Concat(_)
Concat(texts) == IF texts = << >> THEN << >> ELSE Head(texts) \o Concat(Tail(texts))

\* the last five of the summaries, or all of them when there are fewer
LastFive(summaries) ==
  [i \in 1..(IF Len(summaries) < 5 THEN Len(summaries) ELSE 5) |->
     summaries[i + (IF Len(summaries) < 5 THEN 0 ELSE Len(summaries) - 5)]]

\* the line "Recent continuity notes:" and the texts, one to a line
NotesOf(texts) ==
  << Piece("recent_continuity_notes", 0, 3, FALSE) >> \o
  Concat([i \in 1..Len(texts) |-> <<NL>> \o texts[i]])

MergeAlwaysFails == env.stub = "merge_down"

\* C6 as claimed: when merge always fails, the memory after chapter k is the
\* concatenation of the last five summaries.
FallbackIsConcatenation ==
  MergeAlwaysFails /\ StateIsFull =>
    stateFile.doc.story_memory = Concat(LastFive(stateFile.doc.chapter_summaries))

\* C6 as amended: when merge always fails no run ends in a generation
\* failure, and the memory after chapter k, in the program and in the state
\* file, is the line "Recent continuity notes:" followed by the last five
\* summaries (all of them when k < 5), each on a line of its own.
FallbackIsNotesOfLastFive ==
  MergeAlwaysFails =>
    /\ result.status # "generation_failed"
    /\ StateIsFull =>
         stateFile.doc.story_memory = NotesOf(LastFive(stateFile.doc.chapter_summaries))
    /\ pc \in {"write_tmp", "write_tmp_data", "replace", "write_book", "write_book_data"} =>
         /\ story_memory = NotesOf(LastFive(chapter_summaries))
         /\ Len(chapter_summaries) = chapter_no

\* merge always failed and the book was taken to its cap, past five chapters
FallbackBookCompleted ==
  /\ MergeAlwaysFails
  /\ result.status = "under_length"
  /\ StateIsFull
  /\ Len(stateFile.doc.chapter_summaries) > 5
  /\ Len(StateChapters) = env.max_chapters

\* the chapter was appended a moment ago: the summarize call has not been sent
JustAccepted == pc = "request" /\ call.kind = "summarize" /\ call.attempt = 0

\* the first attempt as the program counts it, with its placeholder title
Titled(n, text) ==
  IF text # << >> /\ Head(text).m
  THEN text
  ELSE << Piece("chapter_untitled", n, 3, TRUE), NL2 >> \o text

HalfTargetFloor ==
  IF env.target_chapter_words \div 2 > 900 THEN env.target_chapter_words \div 2 ELSE 900

\* C7 as claimed: the regeneration is made exactly when the text the first
\* attempt yields has fewer than max(900, target/2) words.
RegenerationByRawLength ==
  JustAccepted =>
    hist.chapCalls = IF count_words(hist.first) < HalfTargetFloor THEN 2 ELSE 1

\* C7 as amended: the regeneration is made exactly when the first attempt,
\* counted after the placeholder title was put before a text without the
\* chapter marker, has fewer than max(900, target // 2) words; it is made once,
\* with target max(target, 2000), and its text is accepted whatever its length.
RegenerationByTitledLength ==
  /\ hist.chapCalls <= 2
  /\ JustAccepted =>
       LET short == count_words(Titled(chapter_no, hist.first)) < HalfTargetFloor
       IN /\ hist.chapCalls = IF short THEN 2 ELSE 1
          /\ short => /\ hist.regenTarget =
                           IF env.target_chapter_words > 2000
                           THEN env.target_chapter_words ELSE 2000
                      /\ chapter_text = hist.second
                      /\ chapters[Len(chapters)] = hist.second
          /\ ~short => /\ chapter_text = Titled(chapter_no, hist.first)
                       /\ chapters[Len(chapters)] = chapter_text
                       /\ hist.second = << >>

\* a regeneration of 400 words was accepted after a short first attempt
ShortRegenerationAccepted ==
  /\ JustAccepted
  /\ hist.chapCalls = 2
  /\ count_words(hist.first) = 898
  /\ ch_words = 400

\* C8: every chapter in the chapters list and in the state file begins with
\* "chapter ", a text of the regeneration attempt included.
EveryChapterTitled ==
  /\ \A k \in 1..Len(chapters) : startswith_chapter(chapters[k])
  /\ StateIsFull => \A k \in 1..Len(StateChapters) : startswith_chapter(StateChapters[k])

\* the loop condition, spelled out
MoreNeeded(chs) ==
  /\ count_words(Title) + count_words(Concat(chs)) < env.min_words
  /\ Len(chs) < env.max_chapters

\* C9: a chapter is in production only while the manuscript is under
\* min_words and under max_chapters chapters, the loop is left only when that
\* is false, the under-length failure is raised with exactly max_chapters
\* chapters, and the path is returned only with min_words words.
LoopRunsWhileMoreNeeded ==
  /\ pc \in {"request", "sleep"} /\ call.kind \in {"chapter", "regen"} => MoreNeeded(chapters)
  /\ pc \in {"write_meta", "write_meta_data", "check_length"} => ~MoreNeeded(chapters)
  /\ Len(chapters) <= env.max_chapters
  /\ result.status = "under_length" =>
       /\ metaFile.st = "full"
       /\ metaFile.doc.chapters = env.max_chapters
       /\ metaFile.doc.total_words < env.min_words
       /\ StateIsFull /\ Len(StateChapters) = env.max_chapters
  /\ result.status = "returned" =>
       /\ metaFile.st = "full"
       /\ metaFile.doc.total_words >= env.min_words

\* one run from the fresh state went to the cap and raised the failure
CapReachedInOneRun ==
  /\ result.status = "under_length"
  /\ hist.startState.st = "absent"
  /\ metaFile.doc.chapters = env.max_chapters

FixedStub1500 == env.stub = "fixed"

\* C10 as claimed: with a stub of 1500 words a chapter, total_words is 1500
\* times the number of chapters.
TotalIsChapterWords ==
  FixedStub1500 /\ metaFile.st = "full" =>
    metaFile.doc.total_words = metaFile.doc.chapters * 1500

\* C10 as amended: total_words, the persisted word_count and the count of the
\* loop condition are the words of the title plus the words of the chapters
\* as stored (4503 for three chapters of 1500 words under a 3-word title),
\* and the chapter count is the length of the chapters list.
TotalIsTitlePlusChapterWords ==
  /\ metaFile.st = "full" =>
       /\ metaFile.doc.chapters = Len(StateChapters)
       /\ metaFile.doc.total_words = count_words(Title) + count_words(Concat(StateChapters))
       /\ FixedStub1500 => metaFile.doc.total_words = 3 + metaFile.doc.chapters * 1500
  /\ StateIsFull =>
       stateFile.doc.word_count = count_words(Title) + count_words(Concat(StateChapters))

\* the stub of 1500 words: three chapters, the failure, 4503 words recorded
ThreeChaptersOf1500 ==
  /\ FixedStub1500
  /\ result.status = "under_length"
  /\ metaFile.st = "full"
  /\ metaFile.doc.chapters = 3
  /\ metaFile.doc.total_words = 4503

----------------------------------------------------------------------------
(* The metadata file *)

\* the chapters of the state file, none when there is no state file
PersistedChapters == IF StateIsFull THEN StateChapters ELSE << >>

\* C11: the metadata file is written at most once in an invocation, after the
\* loop and after the last replacement of the state file, and a run that ends
\* with the under-length failure has written it, with the final counts, before
\* the failure was raised.
MetadataWrittenBeforeLengthCheck ==
  /\ hist.metaWrites <= 1
  /\ hist.metaWrites = 1 =>
       /\ pc \in {"write_meta_data", "check_length", "idle"}
       /\ stateFile = hist.metaState
       /\ pc # "idle" => ~MoreNeeded(chapters)
  /\ pc = "check_length" => hist.metaWrites = 1 /\ metaFile.st = "full"
  /\ result.status \in {"under_length", "returned"} =>
       /\ hist.metaWrites = 1
       /\ metaFile.st = "full"
       /\ metaFile.doc.generated_at = now
       /\ metaFile.doc.chapters = Len(PersistedChapters)
       /\ metaFile.doc.total_words =
            count_words(Title) + count_words(Concat(PersistedChapters))
       /\ metaFile.doc.target_min_words = env.min_words
  /\ result.status = "under_length" => metaFile.doc.total_words < env.min_words

\* a run has ended under length, its metadata written in that same run
UnderLengthWithMetadata ==
  /\ result.status = "under_length"
  /\ hist.metaWrites = 1
  /\ metaFile.st = "full"
  /\ metaFile.doc.generated_at = now
  /\ metaFile.doc.total_words < env.min_words
  /\ metaFile.doc.chapters = env.max_chapters

----------------------------------------------------------------------------
(* The transport retry loop *)

\* the sleeps of a call that has sent n requests and goes on: 2, 4, ...
Backoffs(n) == [i \in 1..n |-> i * 2]

\* C12: a call sends between 1 and retries requests, returns the first
\* non-blank response, sleeps 2i seconds after failed attempt i < retries, and
\* when it does not return it raises the terminal failure with the last
\* cause, after exactly retries requests and no sleep after the last.
TransportBudget ==
  /\ xfer.sent \in 0..retries
  /\ xfer.kind # "none" => xfer.sent >= 1
  /\ pc = "sleep" => xfer.slept = Backoffs(xfer.sent - 1) /\ call.sleep_s = xfer.sent * 2
  /\ xfer.outcome = "returned" =>
       /\ strip(xfer.value) # << >>
       /\ xfer.slept = Backoffs(xfer.sent - 1)
  /\ xfer.outcome = "retrying" => xfer.sent < retries
  /\ xfer.outcome \notin {"none", "returned", "retrying"} =>
       /\ xfer.outcome = "raised"
       /\ xfer.sent = retries
       /\ xfer.slept = Backoffs(retries - 1)
       /\ Len(xfer.value) = 2
       /\ xfer.value[1] = Piece("generation_failed_after", retries, 6, FALSE)
       /\ xfer.value[2].k \in {"network", "malformed", "empty_response"}

----------------------------------------------------------------------------
(* The continuity engine *)

\* the last ollama_generate call of the given kind ended with an exception
CallFailed(kind) == xfer.kind = kind /\ xfer.outcome \in {"raised", "propagated"}

PersistedSummaries == IF StateIsFull THEN stateFile.doc.chapter_summaries ELSE << >>

\* C13: no run ends on a failure of summarize or merge; when summarize failed
\* the chapter is in the list and its summary is the placeholder naming the
\* chapter and the reason, when merge failed the memory is the local fallback,
\* and the state is then persisted and the loop reached again.
ContinuityFailuresNotFatal ==
  /\ result.status = "generation_failed" => result.call \in {"chapter", "regen"}
  /\ pc = "request" /\ call.kind = "merge" /\ call.attempt = 0 /\ CallFailed("summarize") =>
       /\ Len(chapters) = chapter_no
       /\ chapters[chapter_no] = chapter_text
       /\ Len(chapter_summaries) = chapter_no
       /\ chapter_summaries[chapter_no] =
            << Piece("summary_unavailable", chapter_no, 7, TRUE) >> \o xfer.value
  /\ pc = "write_tmp" /\ CallFailed("merge") =>
       /\ story_memory = NotesOf(LastFive(chapter_summaries))
       /\ state.story_memory = story_memory
       /\ state.chapters = chapters
       /\ Len(chapters) = chapter_no
  /\ pc \in {"write_book", "write_book_data", "loop"} /\ CallFailed("merge") =>
       /\ stateFile = Full(state)
       /\ Len(PersistedChapters) = chapter_no
       /\ Len(PersistedSummaries) = chapter_no
       /\ stateFile.doc.story_memory = NotesOf(LastFive(PersistedSummaries))

\* summarize and merge both failed for chapter 1, which is persisted with the
\* placeholder and the fallback, and chapter 2 is being requested
NextChapterAfterBothFailed ==
  /\ pc = "request"
  /\ call.kind = "chapter"
  /\ chapter_no = 2
  /\ Len(PersistedChapters) = 1
  /\ PersistedSummaries[1][1].k = "summary_unavailable"
  /\ stateFile.doc.story_memory = NotesOf(PersistedSummaries)

----------------------------------------------------------------------------
(* The chapters list *)

PrefixOf(old, new) == Len(old) <= Len(new) /\ SubSeq(new, 1, Len(old)) = old

\* C14: every change of the state file adds exactly one chapter and one
\* summary at the end of the lists it held, and that chapter is the one whose
\* number, its position in the list, was put in the prompts of the iteration.
ChaptersAppendOnly ==
  [][ /\ pc = "request" /\ call.kind \in {"chapter", "regen"} =>
           /\ call.prompt.chapter_number = chapter_no
           /\ chapter_no = Len(PersistedChapters) + 1
      /\ stateFile' # stateFile =>
           /\ stateFile'.st = "full"
           /\ Len(stateFile'.doc.chapters) = Len(PersistedChapters) + 1
           /\ PrefixOf(PersistedChapters, stateFile'.doc.chapters)
           /\ Len(stateFile'.doc.chapter_summaries) = Len(PersistedSummaries) + 1
           /\ PrefixOf(PersistedSummaries, stateFile'.doc.chapter_summaries)
           /\ stateFile'.doc.chapters[chapter_no] = chapter_text
           /\ chapter_no = Len(stateFile'.doc.chapters)
    ]_vars

\* after a crash and a resume, a third chapter is persisted behind two others
ThirdChapterAfterResume ==
  /\ now >= 2
  /\ hist.loaded >= 1
  /\ Len(PersistedChapters) = 3
  /\ pc = "write_book"
  /\ chapter_no = 3

----------------------------------------------------------------------------
(* The story memory *)

IsBlank(text) == strip(text) = << >>

\* the state dict of the run, once loaded, and the state file when there is one
StateDocs ==
  (IF pc \in {"idle", "read_state"} THEN {} ELSE {state}) \cup
  (IF StateIsFull THEN {stateFile.doc} ELSE {})

\* C15: a state holds the sentinel memory exactly when it holds no chapter,
\* the memory of a run is never blank, and the prompt of chapter n, first
\* attempt or regeneration, carries the memory persisted with chapter n-1 (the
\* sentinel for chapter 1).
StoryMemoryNeverBlank ==
  /\ \A doc \in StateDocs :
       /\ doc.story_memory = Sentinel <=> Len(doc.chapters) = 0
       /\ ~IsBlank(doc.story_memory)
  /\ pc \notin {"idle", "read_state"} => ~IsBlank(story_memory)
  /\ pc = "loop" => (story_memory = Sentinel <=> Len(chapters) = 0)
  /\ pc \in {"request", "sleep"} /\ call.kind \in {"chapter", "regen"} =>
       /\ call.prompt.chapter_number = Len(PersistedChapters) + 1
       /\ call.prompt.story_memory =
            IF StateIsFull THEN stateFile.doc.story_memory
            ELSE << Piece("no_chapters_yet", 0, 3, FALSE) >>

\* chapter 2 is regenerated with the memory persisted with chapter 1
RegenerationWithPersistedMemory ==
  /\ pc = "request"
  /\ call.kind = "regen"
  /\ chapter_no = 2
  /\ StateIsFull
  /\ call.prompt.story_memory = stateFile.doc.story_memory
  /\ call.prompt.story_memory # Sentinel

----------------------------------------------------------------------------
(* The objective of a chapter *)

\* C19: the prompts of chapter n carry objective n of the outline when the
\* outline has one and the generic objective when it has not, the
\* regeneration with the fuller-scenes instruction added, the first attempt
\* without it.
ObjectiveFromOutline ==
  pc \in {"request", "sleep"} /\ call.kind \in {"chapter", "regen"} =>
    /\ chapter_no \in 1..env.max_chapters
    /\ call.prompt.chapter_number = chapter_no
    /\ call.prompt.chapter_goal.plan = IF chapter_no <= env.plans THEN chapter_no ELSE 0
    /\ call.prompt.chapter_goal.fuller = (call.kind = "regen")
    /\ chapter_goal.plan = call.prompt.chapter_goal.plan
    /\ ~chapter_goal.fuller

\* chapter 3 of a book with an outline of two is regenerated with the generic
\* objective, after chapter 2 was requested with the last of the outline
RegenerationPastOutline ==
  /\ env.plans = 2
  /\ pc = "request"
  /\ call.kind = "regen"
  /\ chapter_no = 3
  /\ call.prompt.chapter_goal = [plan |-> 0, fuller |-> TRUE]
  /\ Len(PersistedChapters) = 2

----------------------------------------------------------------------------
(* A chapter call that fails *)

\* C20: when a chapter call or a regeneration ends a run, the state file, the
\* manuscript and the metadata file are as they were when the iteration
\* began, no metadata was written in the run, and the next run loads the
\* chapters before N and makes its first generation call for chapter N.
ChapterFailureLeavesFiles ==
  /\ result.status = "generation_failed" =>
       /\ CallFailed("chapter") \/ CallFailed("regen")
       /\ result.call = xfer.kind
       /\ <<stateFile, bookFile, metaFile>> = hist.iterStart
       /\ hist.metaWrites = 0
       /\ hist.failN = Len(PersistedChapters) + 1
  /\ hist.failN > 0 => result.status = "generation_failed"
  /\ hist.resumeF > 0 /\ hist.loaded >= 0 => hist.loaded = hist.resumeF - 1
  /\ hist.resumeF > 0 /\ hist.firstGen > 0 => hist.firstGen = hist.resumeF
  /\ hist.resumeF > 0 /\ hist.metaWrites > 0 => hist.firstGen = hist.resumeF

\* a generation call for chapter 2 ended a run, and the next run has persisted
\* chapter 2
ResumedAfterFailedChapterCall ==
  /\ hist.resumeF = 2
  /\ hist.loaded = 1
  /\ hist.firstGen = 2
  /\ Len(PersistedChapters) = 2

----------------------------------------------------------------------------
(* main: the health check, then the books of default_specs() one by one *)

\* max(5, min(args.timeout_sec, 30))
ProbeTimeout(timeout_sec) == Max(PROBE_MIN, Min(timeout_sec, PROBE_MAX))

\* f"Cannot reach Ollama at {url}. Ensure service is running ... Error: {exc}"
CannotReach(cause) ==
  << Piece("cannot_reach_ollama_at", 0, 4, FALSE), Piece("endpoint_api_tags", 0, 1, FALSE),
     Piece(cause, 0, 1, FALSE) >>

MainInit ==
  /\ env \in MainScenarios
  /\ now = 0
  /\ stateFile = Absent(NoState)
  /\ tmpFile = Absent(NoState)
  /\ bookFile = Absent(<< >>)
  /\ metaFile = Absent(NoMeta)
  /\ pc = "idle"
  /\ result = Ended("none", "none")
  /\ state = NoState
  /\ chapters = << >>
  /\ chapter_summaries = << >>
  /\ story_memory = << >>
  /\ chapter_no = 0
  /\ chapter_goal = NoGoal
  /\ chapter_text = << >>
  /\ ch_words = 0
  /\ chapter_summary = << >>
  /\ call = NoCall
  /\ hist = InitHist
  /\ xfer = NoXfer
  /\ mainPc = "off"
  /\ spec_i = 1
  /\ generated = << >>
  /\ exit_status = NO_EXIT
  /\ shelf = EmptyShelf
  /\ mhist = NoMainHist

\* a process starts: parse_args, ensure_dir
MainStart ==
  /\ mainPc = "off"
  /\ mhist.procs < MaxProcs
  /\ mainPc' = "check_ollama"
  /\ generated' = << >>
  /\ exit_status' = NO_EXIT
  /\ result' = Ended("none", "none")
  /\ xfer' = NoXfer
  /\ mhist' = [NoMainHist EXCEPT !.procs = mhist.procs + 1, !.disk0 = Disk]
  /\ UNCHANGED <<env, now, files, pc, locals, call, hist, spec_i, shelf>>

\* faulty variant: only an unreachable service fails the check
CheckOllama_any_status ==
  /\ mainPc = "check_ollama"
  /\ \E probe \in Probes :
       /\ mhist' = [mhist EXCEPT !.probes = @ + 1, !.probe = probe,
                      !.probeTimeout = ProbeTimeout(env.timeout_sec),
                      !.interrupts = IF probe = "interrupt" THEN @ + 1 ELSE @,
                      !.interruptedIn = IF probe = "interrupt" THEN "probe" ELSE @,
                      !.atInterrupt = IF probe = "interrupt" THEN Disk ELSE @,
                      !.error = IF probe = "unreachable" THEN CannotReach(probe) ELSE @]
       /\ IF probe \in {"ok", "bad_status"}
          THEN mainPc' = "next_book" /\ UNCHANGED exit_status
          ELSE /\ mainPc' = "off"
               /\ exit_status' = IF probe = "interrupt" THEN EXIT_INTERRUPTED ELSE EXIT_ERROR
  /\ UNCHANGED <<env, now, files, pc, result, locals, call, hist, xfer, spec_i,
                 generated, shelf>>

\* check_ollama(args.endpoint, timeout_sec=max(5, min(args.timeout_sec, 30)))
CheckOllama ==
  /\ mainPc = "check_ollama"
  /\ \E probe \in Probes :
       /\ mhist' = [mhist EXCEPT !.probes = @ + 1, !.probe = probe,
                      !.probeTimeout = ProbeTimeout(env.timeout_sec),
                      !.interrupts = IF probe = "interrupt" THEN @ + 1 ELSE @,
                      !.interruptedIn = IF probe = "interrupt" THEN "probe" ELSE @,
                      !.atInterrupt = IF probe = "interrupt" THEN Disk ELSE @,
                      !.error = IF probe \in {"bad_status", "unreachable"}
                                THEN CannotReach(probe) ELSE @]
       /\ IF probe = "ok"
          THEN mainPc' = "next_book" /\ UNCHANGED exit_status
          ELSE /\ mainPc' = "off"
               /\ exit_status' = IF probe = "interrupt" THEN EXIT_INTERRUPTED ELSE EXIT_ERROR
  /\ UNCHANGED <<env, now, files, pc, result, locals, call, hist, xfer, spec_i,
                 generated, shelf>>

\* the files and the history of book b
Shelved(b) ==
  IF b = spec_i THEN BookFiles(stateFile, tmpFile, bookFile, metaFile, hist) ELSE shelf[b]

\* the history of a new invocation of generate_one_book on a book
RunHist(book) ==
  [book.hist EXCEPT !.resumeN = book.hist.abortN, !.abortN = 0, !.loaded = -1,
                    !.firstGen = 0, !.genCalls = 0, !.chapCalls = 0,
                    !.first = << >>, !.second = << >>, !.regenTarget = 0,
                    !.textReady = FALSE,
                    !.startState = book.stateFile,
                    !.metaWrites = 0, !.metaState = Absent(NoState),
                    !.iterStart = <<book.stateFile, book.bookFile, book.metaFile>>,
                    !.resumeF = book.hist.failN, !.failN = 0, !.iters = 0]

\* for spec in default_specs(): generate_one_book(spec, ...)
StartBook ==
  /\ mainPc = "next_book"
  /\ Len(generated) < NBOOKS
  /\ LET b == Len(generated) + 1
         book == Shelved(b)
     IN /\ spec_i' = b
        /\ shelf' = [shelf EXCEPT ![spec_i] = Shelved(spec_i)]
        /\ stateFile' = book.stateFile
        /\ tmpFile' = book.tmpFile
        /\ bookFile' = book.bookFile
        /\ metaFile' = book.metaFile
        /\ hist' = RunHist(book)
        /\ mhist' = [mhist EXCEPT !.started = Append(@, b)]
  /\ now' = now + 1
  /\ pc' = "read_state"
  /\ result' = Running
  /\ mainPc' = "in_book"
  /\ UNCHANGED <<env, locals, call, xfer, generated, exit_status>>

\* faulty variant: a book that fails is skipped and the next one started
BookEnded_skip ==
  /\ mainPc = "in_book"
  /\ pc = "idle"
  /\ mhist' = [mhist EXCEPT !.ended = Append(@, result.status)]
  /\ generated' = Append(generated, spec_i)
  /\ mainPc' = "next_book"
  /\ UNCHANGED <<env, now, files, pc, result, locals, call, hist, xfer, spec_i, shelf,
                 exit_status>>

\* generate_one_book has returned its path, or its exception leaves main
BookEnded ==
  /\ mainPc = "in_book"
  /\ pc = "idle"
  /\ mhist' = [mhist EXCEPT !.ended = Append(@, result.status)]
  /\ IF result.status = "returned"
     THEN /\ generated' = Append(generated, spec_i)
          /\ mainPc' = "next_book"
          /\ UNCHANGED exit_status
     ELSE /\ mainPc' = "off"
          /\ exit_status' = CASE result.status = "interrupted" -> EXIT_INTERRUPTED
                              [] result.status = "crashed" -> EXIT_KILLED
                              [] OTHER -> EXIT_ERROR
          /\ UNCHANGED generated
  /\ UNCHANGED <<env, now, files, pc, result, locals, call, hist, xfer, spec_i, shelf>>

\* the read-back of every generated path, then return 0
Report ==
  /\ mainPc = "next_book"
  /\ Len(generated) = NBOOKS
  /\ mainPc' = "off"
  /\ exit_status' = IF \E b \in 1..NBOOKS : Disk[b][3].st = "absent"
                    THEN EXIT_ERROR ELSE EXIT_OK
  /\ UNCHANGED <<env, now, files, pc, result, locals, call, hist, xfer, spec_i,
                 generated, shelf, mhist>>

MainNext ==
  \/ MainStart
  \/ CheckOllama
  \/ StartBook
  \/ BookEnded
  \/ Report
  \/ ReadState
  \/ LoopTest
  \/ OllamaRequest
  \/ OllamaSleep
  \/ WriteStateOpen
  \/ WriteStateData
  \/ ReplaceState
  \/ WriteBookOpen
  \/ WriteBookData
  \/ WriteMetaOpen
  \/ WriteMetaData
  \/ Finish
  \/ Crash
  \/ Interrupt

MainSpec == MainInit /\ [][MainNext]_vars

----------------------------------------------------------------------------
(* Properties of main, under MainSpec *)

\* C16: the health check comes before any book; when it fails on the network
\* or on the status, main ends with the failure that names the endpoint,
\* having sent no generation request and written no file of any book; and
\* its timeout is the --timeout-sec value clamped to 5..30.
HealthCheckGatesTheRun ==
  /\ mhist.probes <= 1
  /\ mhist.probeTimeout <= 30
  /\ mhist.probes = 1 =>
       mhist.probeTimeout = IF env.timeout_sec > 30 THEN 30
                            ELSE IF env.timeout_sec < 5 THEN 5 ELSE env.timeout_sec
  /\ mainPc \in {"next_book", "in_book"} => mhist.probe = "ok"
  /\ mhist.started # << >> \/ xfer # NoXfer \/ generated # << >> => mhist.probe = "ok"
  /\ mhist.probe \in {"bad_status", "unreachable"} =>
       /\ mainPc = "off"
       /\ exit_status = 1
       /\ mhist.error[2].k = "endpoint_api_tags"
       /\ mhist.started = << >>
       /\ xfer.sent = 0
       /\ Disk = mhist.disk0

\* a second process finds the service answering with an error status: it
\* ends with status 1 and the files of the first process are as they were
FailedProbeWithBooksOnDisk ==
  /\ mhist.procs = 2
  /\ mhist.probe = "bad_status"
  /\ mhist.probeTimeout = 30
  /\ env.timeout_sec = 240
  /\ exit_status = 1
  /\ Disk[1][1].st = "full"
  /\ Disk = mhist.disk0

Last(seq) == seq[Len(seq)]

\* the words of the manuscript of book b, by its state file
FinalWords(b) ==
  IF Disk[b][1].st = "full"
  THEN count_words(Title) + count_words(Concat(Disk[b][1].doc.chapters))
  ELSE count_words(Title)

\* C17: the books are started in catalog order, each only after the one
\* before it returned; a book that ends in a generation failure or under
\* length ends the process with a non-zero status and no later book started;
\* and status 0 means the three books returned, each with min_words words.
BooksInCatalogOrder ==
  /\ \A i \in 1..Len(mhist.started) : mhist.started[i] = i
  /\ Len(mhist.started) <= 3
  /\ Len(mhist.ended) = IF mainPc = "in_book" THEN Len(mhist.started) - 1
                        ELSE Len(mhist.started)
  /\ mainPc = "in_book" => spec_i = Len(mhist.started)
  /\ pc # "idle" => mainPc = "in_book"
  /\ \A i \in 1..Len(mhist.ended) :
       i < Len(mhist.started) => mhist.ended[i] = "returned"
  /\ mhist.ended # << >> /\ Last(mhist.ended) # "returned" =>
       /\ mainPc = "off"
       /\ exit_status # 0
       /\ exit_status # NO_EXIT
  /\ mhist.ended # << >> /\ Last(mhist.ended) \in {"generation_failed", "under_length"} =>
       exit_status = 1
  /\ exit_status = 0 =>
       /\ mainPc = "off"
       /\ mhist.ended = <<"returned", "returned", "returned">>
       /\ \A b \in 1..3 :
            /\ FinalWords(b) >= env.min_words
            /\ Disk[b][4].st = "full"
            /\ Disk[b][4].doc.total_words = FinalWords(b)

\* the first process ended on its second book; the second process has run
\* the three books and returned 0
AllBooksDoneBySecondProcess ==
  /\ mhist.procs = 2
  /\ now = 5
  /\ exit_status = 0
  /\ generated = <<1, 2, 3>>

----------------------------------------------------------------------------
(* The manuscript file of a run that returns *)

\* C21: when generate_one_book has returned its path, the manuscript file
\* exists and holds the title header followed by every chapter of the state
\* file, after a resume and after a run whose loop body never ran as well.
ReturnedManuscriptIsWholeBook ==
  result.status = "returned" =>
    /\ bookFile.st = "full"
    /\ bookFile.doc = manuscript_text(Title, PersistedChapters)

----------------------------------------------------------------------------
(* Termination of generate_one_book *)

\* the runs checked for termination: every length and every failure of a
\* chapter text, every outcome of a request, and a book that reaches its cap
LiveScenarios ==
  { Env(3000, 1800, 2, "length"),
    Env(1500, 1800, 1, "transport"),
    Env(5000, 1800, 3, "fixed") }

LiveInit ==
  /\ env \in LiveScenarios
  /\ now = 0
  /\ stateFile = Absent(NoState)
  /\ tmpFile = Absent(NoState)
  /\ bookFile = Absent(<< >>)
  /\ metaFile = Absent(NoMeta)
  /\ pc = "idle"
  /\ result = Ended("none", "none")
  /\ state = NoState
  /\ chapters = << >>
  /\ chapter_summaries = << >>
  /\ story_memory = << >>
  /\ chapter_no = 0
  /\ chapter_goal = NoGoal
  /\ chapter_text = << >>
  /\ ch_words = 0
  /\ chapter_summary = << >>
  /\ call = NoCall
  /\ hist = InitHist
  /\ xfer = NoXfer
  /\ mainPc = "none"
  /\ spec_i = 1
  /\ generated = << >>
  /\ exit_status = NO_EXIT
  /\ shelf = EmptyShelf
  /\ mhist = NoMainHist

\* a step of generate_one_book itself: every request is answered or fails,
\* every sleep and every write ends
BookStep ==
  \/ ReadState
  \/ LoopTest
  \/ OllamaRequest
  \/ OllamaSleep
  \/ WriteStateOpen
  \/ WriteStateData
  \/ ReplaceState
  \/ WriteBookOpen
  \/ WriteBookData
  \/ WriteMetaOpen
  \/ WriteMetaData
  \/ Finish

LiveSpec == LiveInit /\ [][Next]_vars /\ WF_vars(BookStep)

\* C22: a run never holds more than max_chapters chapters nor begins more
\* loop iterations than max_chapters less the chapters it loaded, and every
\* run, whatever the service answers, comes to its end.
CappedAndTerminates ==
  /\ [](/\ Len(chapters) <= env.max_chapters
        /\ Len(PersistedChapters) <= env.max_chapters
        /\ hist.loaded >= 0 => /\ hist.loaded <= env.max_chapters
                               /\ hist.iters <= env.max_chapters - hist.loaded
        /\ pc \notin {"idle", "read_state"} => Len(chapters) <= hist.loaded + hist.iters)
  /\ (pc # "idle") ~> (pc = "idle" /\ result.status # "running")

\* a run that loaded one chapter has ended at the cap after one iteration
ResumedRunEndsAtCap ==
  /\ result.status = "under_length"
  /\ hist.loaded = 1
  /\ env.max_chapters = 2
  /\ hist.iters = 1
  /\ Len(PersistedChapters) = 2

====
